---- MODULE Spec2Model ----
(***************************************************************************)
(* esp-web-flash-server (src/main.rs): prepare() assembles the three flash *)
(* payloads with the espflash crate, main() spawns a browser-opening       *)
(* thread and launches a Rocket server whose handlers hand out the bytes   *)
(* held in the managed PartsData.                                          *)
(*                                                                         *)
(* The espflash, std::fs, opener and Rocket calls are external: each is    *)
(* modelled at its call site, its result chosen by the environment among   *)
(* the values of its return type.                                          *)
(***************************************************************************)
EXTENDS Integers, Sequences, FiniteSets, TLC

VARIABLES pc, opts, elf, p, b, firmware, chip_name, image, data,
          managed, browser, inflight, resp, err

vars == <<pc, opts, elf, p, b, firmware, chip_name, image, data,
          managed, browser, inflight, resp, err>>

locals == <<opts, elf, p, b, firmware, chip_name, image>>
server == <<managed, inflight, resp>>

\* Bound of the model: requests being handled at the same time.
MaxInflight == 2

None == [tag |-> "None"]
Some(x) == [tag |-> "Some", val |-> x]
IsSome(o) == o.tag = "Some"

\* ------------------------------------------------------------ inputs
Chips == {"Esp32", "Esp32c3", "Esp32s2", "Esp32s3", "Esp8266"}

\* Byte buffers (Vec<u8>) the model distinguishes.
Payloads == {<<233>>, <<233, 0>>}

\* What a path names on disk: unreadable, or readable with some bytes.
Unreadable == [readable |-> FALSE]
Readable(bytes) == [readable |-> TRUE, bytes |-> bytes]

ElfContents == {"elf_loadable", "elf_invalid"}
WellFormedTables == {"pt_wellformed"}
MalformedTables == {"pt_truncated", "pt_overlapping"}
TableContents == WellFormedTables \cup MalformedTables

ElfFiles == {Unreadable} \cup {Readable(c) : c \in ElfContents}
TableFiles == {Unreadable} \cup {Readable(c) : c \in TableContents}
BootloaderFiles == {Unreadable} \cup {Readable(c) : c \in Payloads}

Optional(S) == {None} \cup {Some(x) : x \in S}

Args == [chip : Chips,
         bootloader : Optional(BootloaderFiles),
         partition_table : Optional(TableFiles),
         elf : ElfFiles]

\* ------------------------------------------------------------ external calls
Ok(x) == [tag |-> "Ok", val |-> x]
Err(e) == [tag |-> "Err", error |-> e]
IsOk(r) == r.tag = "Ok"

\* std::fs::read(path)
fs_read(file) == IF file.readable THEN Ok(file.bytes) ELSE Err("io")

\* PartitionTable::try_from_bytes(bytes): the whole table or an error
try_from_bytes(bytes) ==
    IF bytes \in WellFormedTables
    THEN Ok([table |-> bytes])
    ELSE Err("MalformedPartitionTable")

\* FirmwareImageBuilder::new(&elf).flash_size(Some(Flash4Mb)).build()
build(elfBytes) ==
    IF elfBytes = "elf_loadable"
    THEN Ok([elf |-> elfBytes, flash_size |-> "Flash4Mb"])
    ELSE Err("InvalidExecutable")

\* Flash addresses and segments an image may report.
Addrs == {0, 4096, 32768, 65536}
FlashSegment == [addr : Addrs, data : Payloads]
SegCounts == {2, 3, 4}
FlashImages == UNION {[1..n -> FlashSegment] : n \in SegCounts}

\* chip.get_flash_image(&firmware, b, p, None, None): an error, or an image
\* whose flash_segments() the crate decides.
get_flash_image_results == {Err("flash_image")} \cup {Ok(i) : i \in FlashImages}

\* ------------------------------------------------------------ handlers
Routes == {"/", "/manifest.json", "/bootloader.bin", "/partitions.bin", "/firmware.bin"}
BinaryRoutes == {"/bootloader.bin", "/partitions.bin", "/firmware.bin"}

Part(path, offset) == [path |-> path, offset |-> offset]
Build(family, o1, o2, o3) ==
    [chipFamily |-> family,
     parts |-> <<Part("bootloader.bin", o1), Part("partitions.bin", o2),
                 Part("firmware.bin", o3)>>]

manifest_BadOffset ==
    [name |-> "ESP Application",
     new_install_prompt_erase |-> TRUE,
     builds |-> <<Build("ESP32", 4096, 32768, 65536),
                  Build("ESP32-C3", 0, 32768, 65536),
                  Build("ESP32-S2", 4096, 32768, 65536),
                  Build("ESP32-S3", 32768, 32768, 65536)>>]

manifest ==
    [name |-> "ESP Application",
     new_install_prompt_erase |-> TRUE,
     builds |-> <<Build("ESP32", 4096, 32768, 65536),
                  Build("ESP32-C3", 0, 32768, 65536),
                  Build("ESP32-S2", 4096, 32768, 65536),
                  Build("ESP32-S3", 0, 32768, 65536)>>]

index == "ESP Web Flasher landing page"

\* GET /bootloader.bin, /partitions.bin, /firmware.bin: data.<field>.clone()
bootloader_bin(d) == d.bootloader

partitions_bin(d) == d.partitions

firmware_bin(d) == d.firmware

Response(route, status, body) == [route |-> route, status |-> status, body |-> body]
NoResponse == [route |-> "none"]

\* Rocket's dispatch of a request to the mounted route; the &State<PartsData>
\* guard of the binary routes fails when no PartsData is managed.
dispatch_FailsOnShort(route, isManaged, d) ==
    IF route \in BinaryRoutes /\ (~isManaged \/ Len(d.val.bootloader) > 1)
    THEN Response(route, 500, <<>>)
    ELSE CASE route = "/" -> Response(route, 200, index)
           [] route = "/manifest.json" -> Response(route, 200, manifest)
           [] route = "/bootloader.bin" -> Response(route, 200, bootloader_bin(d.val))
           [] route = "/partitions.bin" -> Response(route, 200, partitions_bin(d.val))
           [] route = "/firmware.bin" -> Response(route, 200, firmware_bin(d.val))

dispatch(route, isManaged, d) ==
    IF route \in BinaryRoutes /\ ~isManaged
    THEN Response(route, 500, <<>>)
    ELSE CASE route = "/" -> Response(route, 200, index)
           [] route = "/manifest.json" -> Response(route, 200, manifest)
           [] route = "/bootloader.bin" -> Response(route, 200, bootloader_bin(d.val))
           [] route = "/partitions.bin" -> Response(route, 200, partitions_bin(d.val))
           [] route = "/firmware.bin" -> Response(route, 200, firmware_bin(d.val))

\* ------------------------------------------------------------ prepare()
ChipName(chip) ==
    CASE chip = "Esp32" -> "ESP32"
      [] chip = "Esp32c3" -> "ESP32-C3"
      [] chip = "Esp32s2" -> "ESP32-S2"
      [] chip = "Esp32s3" -> "ESP32-S3"
      [] chip = "Esp8266" -> "ESP8266"

PartsData(chip, bl, pt, fw) ==
    [chip |-> chip, bootloader |-> bl, partitions |-> pt, firmware |-> fw]

Init ==
    /\ pc = "start"
    /\ opts = None
    /\ elf = None
    /\ p = None
    /\ b = None
    /\ firmware = None
    /\ chip_name = None
    /\ image = None
    /\ data = None
    /\ managed = FALSE
    /\ browser = "none"
    /\ inflight = [r \in Routes |-> 0]
    /\ resp = NoResponse
    /\ err = "none"

\* prepare() returns Err and main's `?` returns it: the process exits.
Fail(step) ==
    /\ pc' = "exit_failure"
    /\ err' = step

\* let opts = Args::parse();
ParseArgs ==
    /\ pc = "start"
    /\ \E a \in Args : opts' = Some(a)
    /\ pc' = "args"
    /\ UNCHANGED <<elf, p, b, firmware, chip_name, image, data, server, browser, err>>

\* let elf = std::fs::read(opts.elf)?;
ReadElf ==
    /\ pc = "args"
    /\ LET r == fs_read(opts.val.elf) IN
         IF IsOk(r)
         THEN /\ elf' = Some(r.val)
              /\ pc' = "elf_read"
              /\ UNCHANGED err
         ELSE /\ Fail("read_elf")
              /\ UNCHANGED elf
    /\ UNCHANGED <<opts, p, b, firmware, chip_name, image, data, server, browser>>

ReadPartitionTable_Fallback ==
    /\ pc = "elf_read"
    /\ IF IsSome(opts.val.partition_table)
       THEN LET r == fs_read(opts.val.partition_table.val) IN
              IF IsOk(r)
              THEN LET t == try_from_bytes(r.val) IN
                     /\ p' = IF IsOk(t) THEN Some(t.val) ELSE None
                     /\ pc' = "pt_done"
                     /\ UNCHANGED err
              ELSE /\ Fail("read_partition_table")
                   /\ UNCHANGED p
       ELSE /\ p' = None
            /\ pc' = "pt_done"
            /\ UNCHANGED err
    /\ UNCHANGED <<opts, elf, b, firmware, chip_name, image, data, server, browser>>

\* let p = if let Some(p) = &opts.partition_table {
\*     Some(PartitionTable::try_from_bytes(std::fs::read(p)?)?) } else { None };
ReadPartitionTable ==
    /\ pc = "elf_read"
    /\ IF IsSome(opts.val.partition_table)
       THEN LET r == fs_read(opts.val.partition_table.val) IN
              IF IsOk(r)
              THEN LET t == try_from_bytes(r.val) IN
                     IF IsOk(t)
                     THEN /\ p' = Some(t.val)
                          /\ pc' = "pt_done"
                          /\ UNCHANGED err
                     ELSE /\ Fail("parse_partition_table")
                          /\ UNCHANGED p
              ELSE /\ Fail("read_partition_table")
                   /\ UNCHANGED p
       ELSE /\ p' = None
            /\ pc' = "pt_done"
            /\ UNCHANGED err
    /\ UNCHANGED <<opts, elf, b, firmware, chip_name, image, data, server, browser>>

ReadBootloader_Required ==
    /\ pc = "pt_done"
    /\ IF IsSome(opts.val.bootloader)
       THEN LET r == fs_read(opts.val.bootloader.val) IN
              IF IsOk(r)
              THEN /\ b' = Some(r.val)
                   /\ pc' = "bl_done"
                   /\ UNCHANGED err
              ELSE /\ Fail("read_bootloader")
                   /\ UNCHANGED b
       ELSE /\ Fail("read_bootloader")
            /\ UNCHANGED b
    /\ UNCHANGED <<opts, elf, p, firmware, chip_name, image, data, server, browser>>

\* let b = if let Some(p) = &opts.bootloader { Some(std::fs::read(p)?) } else { None };
ReadBootloader ==
    /\ pc = "pt_done"
    /\ IF IsSome(opts.val.bootloader)
       THEN LET r == fs_read(opts.val.bootloader.val) IN
              IF IsOk(r)
              THEN /\ b' = Some(r.val)
                   /\ pc' = "bl_done"
                   /\ UNCHANGED err
              ELSE /\ Fail("read_bootloader")
                   /\ UNCHANGED b
       ELSE /\ b' = None
            /\ pc' = "bl_done"
            /\ UNCHANGED err
    /\ UNCHANGED <<opts, elf, p, firmware, chip_name, image, data, server, browser>>

\* let firmware = FirmwareImageBuilder::new(&elf)...build()?;
BuildFirmware ==
    /\ pc = "bl_done"
    /\ LET r == build(elf.val) IN
         IF IsOk(r)
         THEN /\ firmware' = Some(r.val)
              /\ pc' = "fw_built"
              /\ UNCHANGED err
         ELSE /\ Fail("build_firmware")
              /\ UNCHANGED firmware
    /\ UNCHANGED <<opts, elf, p, b, chip_name, image, data, server, browser>>

\* let chip_name = match chip {...};
\* let image = chip.get_flash_image(&firmware, b, p, None, None)?;
GetFlashImage ==
    /\ pc = "fw_built"
    /\ chip_name' = Some(ChipName(opts.val.chip))
    /\ \E r \in get_flash_image_results :
         IF IsOk(r)
         THEN /\ image' = Some(r.val)
              /\ pc' = "image"
              /\ UNCHANGED err
         ELSE /\ Fail("get_flash_image")
              /\ UNCHANGED image
    /\ UNCHANGED <<opts, elf, p, b, firmware, data, server, browser>>

\* let parts: Vec<_> = image.flash_segments().collect();
\* parts[0], parts[1], parts[2] (indexing panics on a shorter Vec);
\* Ok(PartsData {...}); prepare()'s locals are dropped on return.
CollectParts ==
    /\ pc = "image"
    /\ LET parts == image.val IN
         IF Len(parts) < 3
         THEN /\ pc' = "panicked"
              /\ err' = "index_out_of_bounds"
              /\ UNCHANGED <<data, locals>>
         ELSE /\ data' = Some(PartsData(chip_name.val, parts[1].data,
                                        parts[2].data, parts[3].data))
              /\ pc' = "prepared"
              /\ opts' = None /\ elf' = None /\ p' = None /\ b' = None
              /\ firmware' = None /\ chip_name' = None /\ image' = None
              /\ UNCHANGED err
    /\ UNCHANGED <<server, browser>>

\* ------------------------------------------------------------ main()
SpawnBrowser_IgnoreErr ==
    /\ pc \in {"prepared", "exit_failure"}
    /\ browser' = "sleeping"
    /\ pc' = "spawned"
    /\ UNCHANGED <<locals, data, server, err>>

\* std::thread::spawn(|| { sleep(1000ms); open_browser(..).ok(); });
SpawnBrowser ==
    /\ pc = "prepared"
    /\ browser' = "sleeping"
    /\ pc' = "spawned"
    /\ UNCHANGED <<locals, data, server, err>>

OpenBrowser_Propagate ==
    /\ browser = "sleeping"
    /\ pc \in {"spawned", "serving"}
    /\ \/ /\ browser' = "opened"
          /\ UNCHANGED <<pc, err>>
       \/ /\ browser' = "open_failed"
          /\ pc' = "panicked"
          /\ err' = "open_browser"
    /\ UNCHANGED <<locals, data, server>>

\* The spawned thread: opener::open_browser(...).ok() drops the result.
\* The thread lives only while the process does.
OpenBrowser ==
    /\ browser = "sleeping"
    /\ pc \in {"spawned", "serving"}
    /\ \E outcome \in {"opened", "open_failed"} : browser' = outcome
    /\ UNCHANGED <<pc, err, locals, data, server>>

\* rocket::build().mount("/", routes![...]).manage(data).launch().await
\*     .expect("Problem launching server")
Launch ==
    /\ pc = "spawned"
    /\ \/ /\ pc' = "serving"
          /\ managed' = TRUE
          /\ UNCHANGED err
       \/ /\ pc' = "panicked"
          /\ err' = "launch"
          /\ UNCHANGED managed
    /\ UNCHANGED <<locals, data, browser, inflight, resp>>

InflightTotal == inflight["/"] + inflight["/manifest.json"] + inflight["/bootloader.bin"]
                 + inflight["/partitions.bin"] + inflight["/firmware.bin"]

\* A request arrives and a worker takes it.
Receive(route) ==
    /\ pc = "serving"
    /\ InflightTotal < MaxInflight
    /\ inflight' = [inflight EXCEPT ![route] = @ + 1]
    /\ UNCHANGED <<pc, err, locals, data, managed, browser, resp>>

Respond_Mutating(route) ==
    /\ pc = "serving"
    /\ inflight[route] > 0
    /\ resp' = dispatch(route, managed, data)
    /\ inflight' = [inflight EXCEPT ![route] = @ - 1]
    /\ data' = IF route = "/bootloader.bin"
               THEN Some([data.val EXCEPT !.bootloader = <<>>])
               ELSE data
    /\ UNCHANGED <<pc, err, locals, managed, browser>>

\* The handler of the route runs and its response is sent.
Respond(route) ==
    /\ pc = "serving"
    /\ inflight[route] > 0
    /\ resp' = dispatch(route, managed, data)
    /\ inflight' = [inflight EXCEPT ![route] = @ - 1]
    /\ UNCHANGED <<pc, err, locals, data, managed, browser>>

\* launch() resolves after a graceful shutdown; main returns Ok(()).
Shutdown ==
    /\ pc = "serving"
    /\ InflightTotal = 0
    /\ pc' = "done"
    /\ UNCHANGED <<err, locals, data, server, browser>>

Receiving == \E route \in Routes : Receive(route)
Responding == \E route \in Routes : Respond(route)

Next ==
    \/ ParseArgs
    \/ ReadElf
    \/ ReadPartitionTable
    \/ ReadBootloader
    \/ BuildFirmware
    \/ GetFlashImage
    \/ CollectParts
    \/ SpawnBrowser
    \/ OpenBrowser
    \/ Launch
    \/ Receiving
    \/ Responding
    \/ Shutdown

Spec == Init /\ [][Next]_vars

\* ------------------------------------------------------------ properties
Served == managed \/ InflightTotal > 0 \/ resp # NoResponse

C1_StateInv ==
    /\ (pc \in {"prepared", "spawned", "serving", "done"} \/ Served \/ browser # "none")
          => IsSome(data) /\ err \in {"none", "launch"}
    /\ pc = "exit_failure"
          => /\ err \in {"read_elf", "read_partition_table", "parse_partition_table",
                         "read_bootloader", "build_firmware", "get_flash_image"}
             /\ data = None /\ ~Served /\ browser = "none"
    /\ (pc = "panicked" /\ err = "index_out_of_bounds")
          => data = None /\ ~Served /\ browser = "none"

C1_Step ==
    /\ (pc # "serving" /\ pc' = "serving") => (pc = "spawned" /\ IsSome(data))
    /\ pc = "exit_failure" => pc' = "exit_failure"
    /\ (pc = "args" /\ ~opts.val.elf.readable) => pc' = "exit_failure"
    /\ (pc = "bl_done" /\ ~IsOk(build(elf.val))) => pc' = "exit_failure"
    /\ (err = "none" /\ err' \notin {"none", "launch"})
          => (pc' \in {"exit_failure", "panicked"} /\ data' = None)

\* C1: the serving phase is entered only after prepare() has succeeded; when a
\* step of prepare() fails the process exits with a failure, nothing is ever
\* served, there is no retry and no PartsData.
C1_ServingOnlyAfterPrepare == []C1_StateInv /\ [][C1_Step]_vars

C1_Witness == pc = "serving" /\ IsSome(data) /\ resp.route = "/firmware.bin"

BuildsFor(doc, family) == SelectSeq(doc.builds, LAMBDA bd : bd.chipFamily = family)

ThreeAssets(doc, family) ==
    LET bs == BuildsFor(doc, family) IN
      /\ Len(bs) = 1
      /\ [i \in 1..Len(bs[1].parts) |-> bs[1].parts[i].path]
            = <<"bootloader.bin", "partitions.bin", "firmware.bin">>

OffsetsMatch(doc, family, segs) ==
    LET bs == BuildsFor(doc, family) IN
      /\ Len(bs) = 1
      /\ \A i \in 1..3 : bs[1].parts[i].offset = segs[i].addr

\* C2: for every chip identifier the CLI accepts (Esp32, Esp32c3, Esp32s2,
\* Esp32s3, Esp8266), the manifest GET /manifest.json serves lists exactly three
\* assets for the selected family (bootloader.bin, partitions.bin, firmware.bin)
\* and their offsets equal the offsets of the flash segments of the run.
C2_ManifestMatchesSegments ==
    /\ IsSome(opts) => ThreeAssets(manifest, ChipName(opts.val.chip))
    /\ resp.route = "/manifest.json" => ThreeAssets(resp.body, data.val.chip)
    /\ (pc = "image" /\ Len(image.val) >= 3)
          => OffsetsMatch(manifest, chip_name.val, image.val)

BodyIsStored ==
    /\ resp.route = "/bootloader.bin" => resp.body = data.val.bootloader
    /\ resp.route = "/partitions.bin" => resp.body = data.val.partitions
    /\ resp.route = "/firmware.bin" => resp.body = data.val.firmware

C4_Step ==
    /\ IsSome(data) => data' = data
    /\ (data = None /\ IsSome(data'))
          => /\ pc = "image" /\ pc' = "prepared"
             /\ data'.val.bootloader = image.val[1].data
             /\ data'.val.partitions = image.val[2].data
             /\ data'.val.firmware = image.val[3].data
    /\ pc \in {"spawned", "serving", "done"} => IsSome(data)

\* C4: PartsData is created once, before serving, from the segments of the
\* flash image, and never changes afterwards; under any interleaving of
\* requests the three binary endpoints return the payloads it holds.
C4_PartsDataImmutable ==
    [](resp.route \in BinaryRoutes => IsSome(data) /\ BodyIsStored) /\ [][C4_Step]_vars

C4_Witness ==
    /\ pc = "serving" /\ InflightTotal = MaxInflight
    /\ resp.route = "/bootloader.bin"
    /\ data.val.bootloader # data.val.partitions

C7_HandlersNeverFail ==
    /\ pc = "serving" => (managed /\ IsSome(data))
    /\ \A r \in BinaryRoutes : (pc = "serving" /\ inflight[r] > 0) => ENABLED Respond(r)
    /\ resp.route \in BinaryRoutes => (resp.status = 200 /\ BodyIsStored)

C7_Witness ==
    /\ pc = "serving" /\ resp.route = "/partitions.bin" /\ resp.status = 200
    /\ inflight["/firmware.bin"] > 0 /\ inflight["/bootloader.bin"] > 0

AllPartsData == [chip : {ChipName(c) : c \in Chips}, bootloader : Payloads,
                 partitions : Payloads, firmware : Payloads]

\* C8: every build descriptor of the served manifest has its three offsets in
\* strictly ascending order (bootloader < partition table < application), and
\* the manifest is the same whatever the payloads are.
C8_OffsetsOrdered ==
    resp.route = "/manifest.json"
       => /\ \A i \in 1..Len(resp.body.builds) :
               LET parts == resp.body.builds[i].parts IN
                 /\ Len(parts) = 3
                 /\ parts[1].offset < parts[2].offset
                 /\ parts[2].offset < parts[3].offset
          /\ \A d \in AllPartsData :
               dispatch("/manifest.json", TRUE, Some(d)).body = resp.body

C8_Witness ==
    /\ resp.route = "/manifest.json" /\ Len(resp.body.builds) = 4
    /\ Len(data.val.bootloader) # Len(data.val.firmware)

MalformedSupplied ==
    /\ IsSome(opts)
    /\ IsSome(opts.val.partition_table)
    /\ opts.val.partition_table.val.readable
    /\ opts.val.partition_table.val.bytes \in MalformedTables

\* C9: with a malformed partition-table file, prepare() fails at the parsing
\* step, before the firmware image is built and before any flash segment
\* exists; no table, partial or default, is carried on.
C9_MalformedTableFailsEarly ==
    /\ MalformedSupplied
          => /\ pc \in {"args", "elf_read", "exit_failure"}
             /\ p = None /\ b = None /\ firmware = None /\ image = None /\ data = None
             /\ pc = "exit_failure" => err \in {"read_elf", "parse_partition_table"}
             /\ (pc = "exit_failure" /\ IsSome(elf)) => err = "parse_partition_table"
    /\ IsSome(p) => /\ IsSome(opts.val.partition_table)
                    /\ p.val.table = opts.val.partition_table.val.bytes
                    /\ p.val.table \in WellFormedTables

C9_Witness ==
    /\ MalformedSupplied /\ opts.val.partition_table.val.bytes = "pt_overlapping"
    /\ pc = "exit_failure" /\ err = "parse_partition_table" /\ firmware = None

C10_StateInv ==
    /\ browser # "none" => (IsSome(data) /\ pc \in {"spawned", "serving", "done", "panicked"})
    /\ pc = "spawned" => ENABLED Launch
    /\ \A r \in Routes : (pc = "serving" /\ inflight[r] > 0) => ENABLED Respond(r)

C10_Step ==
    (browser # "none" /\ browser' # browser)
        => UNCHANGED <<pc, err, data, managed, inflight, resp>>

\* C10: the browser-opening thread is started only after prepare() succeeded;
\* whatever it does, and whenever, it changes neither PartsData nor the server,
\* which can still launch and answer.
C10_BrowserTaskIndependent == []C10_StateInv /\ [][C10_Step]_vars

C10_Witness ==
    /\ browser = "open_failed" /\ pc = "serving"
    /\ resp.route = "/bootloader.bin" /\ resp.body = data.val.bootloader

====
